---------------------------- MODULE Spec2Model ----------------------------
(***************************************************************************)
(* A model of analyzer.py, the SEO content analyzer: the tokenizer, the    *)
(* rule-based metrics, the keyword table, the suggestion provider and the  *)
(* linear run of main().                                                   *)
(*                                                                         *)
(* A Python str is a sequence of one-character strings.  A float that the  *)
(* code computes as sum / count is kept as the exact fraction              *)
(* [num, den]; values rounded to one decimal are kept as a whole number of *)
(* tenths (12.0 is 120).                                                   *)
(***************************************************************************)
EXTENDS Integers, Sequences, FiniteSets, TLC

VARIABLES
    pc,             \* position of the run
    file_status,    \* "ok" | "missing" | "unreadable": what open() will find
    file_content,   \* the characters of the input file
    read_attempts,  \* number of calls of read_file
    text,           \* main: text
    use_mock,       \* --mock
    top_n,          \* --top
    openai,         \* TRUE iff "import openai" succeeded
    OPENAI_API_KEY, \* the environment variable, NoneValue when unset
    wc,             \* main: wc
    avg_sent_len,   \* readability_checks: avg_sent_len (unrounded)
    readability,    \* main: readability
    keywords,       \* main: keywords
    notice,         \* the str(use_mock) printed in the "Sending summary" line
    response,       \* what openai.ChatCompletion.create did
    remote_calls,   \* number of calls of openai.ChatCompletion.create
    suggestions,    \* main: suggestions
    events,         \* the observable events of the run, in order
    exc,            \* the exception that left main, "none" if none
    prompt,         \* main: prompt
    lengths         \* per-sentence token counts (readability runs)

vars == <<pc, file_status, file_content, read_attempts, text, use_mock, top_n,
          openai, OPENAI_API_KEY, wc, avg_sent_len, readability, keywords,
          notice, response, remote_calls, suggestions, events, exc, prompt,
          lengths>>

(***************************************************************************)
(* Bounds of the model.                                                    *)
(***************************************************************************)
MaxLen == 5
MaxDocLen == 1
MaxTopN == 2
MaxSentences == 21
MaxSentLen == 21

(***************************************************************************)
(* Characters.                                                             *)
(***************************************************************************)
LowerLetters == {"a", "n", "b"}
UpperLetters == {"A"}
Whitespace == {" "}
Terminators == {".", "!", "?"}
Alphabet == LowerLetters \cup UpperLetters \cup Whitespace \cup {".", ","}

\* the texts of at most n characters
Strings(n) == UNION {[1..k -> Alphabet] : k \in 0..n}

\* the input files of whole runs: the empty file, words and full stops
DocAlphabet == {"n", "."}
Documents(n) == UNION {[1..k -> DocAlphabet] : k \in 0..n}

Min(a, b) == IF a < b THEN a ELSE b

\* str.lower() on one character
lower_char(c) == IF c = "A" THEN "a" ELSE c

\* str.lower()
lower(s) == [i \in 1..Len(s) |-> lower_char(s[i])]

\* the regular expression class \w
is_word_char(c) == c \in LowerLetters \cup UpperLetters

RECURSIVE findall_words(_, _, _)
\* re.findall(r"\w+", s): the maximal runs of word characters, left to right
findall_words(s, cur, acc) ==
    IF s = <<>>
    THEN IF cur = <<>> THEN acc ELSE Append(acc, cur)
    ELSE IF is_word_char(Head(s))
         THEN findall_words(Tail(s), Append(cur, Head(s)), acc)
         ELSE findall_words(Tail(s), <<>>,
                            IF cur = <<>> THEN acc ELSE Append(acc, cur))

get_words(s) == findall_words(lower(s), <<>>, <<>>)

word_count(s) == Len(get_words(s))

RECURSIVE lstrip(_)
lstrip(s) ==
    IF s # <<>> /\ Head(s) \in Whitespace THEN lstrip(Tail(s)) ELSE s

RECURSIVE rstrip(_)
rstrip(s) ==
    IF s # <<>> /\ s[Len(s)] \in Whitespace
    THEN rstrip(SubSeq(s, 1, Len(s) - 1))
    ELSE s

\* str.strip()
strip(s) == rstrip(lstrip(s))

RECURSIVE re_split(_, _, _, _)
\* re.split(r'[.!?]+', s): the pieces between runs of terminators, the
\* leading and the trailing piece included even when empty
re_split(s, cur, acc, in_run) ==
    IF s = <<>>
    THEN Append(acc, cur)
    ELSE IF Head(s) \in Terminators
         THEN re_split(Tail(s), <<>>,
                       IF in_run THEN acc ELSE Append(acc, cur), TRUE)
         ELSE re_split(Tail(s), Append(cur, Head(s)), acc, FALSE)

\* variant: the piece after the last terminator is lost
sentence_split_drop_last(s) ==
    LET parts == re_split(s, <<>>, <<>>, FALSE)
        kept == SubSeq(parts, 1, Len(parts) - 1)
    IN  SelectSeq([i \in 1..Len(kept) |-> strip(kept[i])],
                  LAMBDA p : p # <<>>)

\* variant: the empty pieces are kept
sentence_split_keep_empty(s) ==
    LET parts == re_split(s, <<>>, <<>>, FALSE)
    IN  [i \in 1..Len(parts) |-> strip(parts[i])]

sentence_split(s) ==
    LET parts == re_split(s, <<>>, <<>>, FALSE)
    IN  SelectSeq([i \in 1..Len(parts) |-> strip(parts[i])],
                  LAMBDA p : p # <<>>)

(***************************************************************************)
(* Metrics.                                                                *)
(***************************************************************************)
LongSentenceWords == 20
EasyBelow == 12
ModerateBelow == 20

RECURSIVE Sum(_)
Sum(ns) == IF ns = <<>> THEN 0 ELSE Head(ns) + Sum(Tail(ns))

\* [len(get_words(s)) for s in sentences]
sentence_lengths(sentences) ==
    [i \in 1..Len(sentences) |-> Len(get_words(sentences[i]))]

\* avg_sentence_length, given the per-sentence token counts: 0 for no
\* sentence, else sum(lengths) / len(lengths)
mean_length(ls) ==
    IF ls = <<>>
    THEN [num |-> 0, den |-> 1]
    ELSE [num |-> Sum(ls), den |-> Len(ls)]

avg_sentence_length(sentences) == mean_length(sentence_lengths(sentences))

RECURSIVE floor_log2(_, _)
\* the e with 2^e <= num/den < 2^(e+1), for num > 0
floor_log2(num, den) ==
    IF num >= 2 * den THEN 1 + floor_log2(num, 2 * den)
    ELSE IF num < den THEN floor_log2(2 * num, den) - 1
    ELSE 0

pow2(k) == IF k = 0 THEN 1 ELSE IF k = 1 THEN 2 ELSE IF k = 2 THEN 4 ELSE 8

\* round(x, 1) of the double x nearest to (2q+1)/20, a value halfway between
\* q and q+1 tenths.  When (2q+1)/20 is a multiple of 1/4 the double is
\* exact and the tie goes to the even tenth.  Otherwise the double is the
\* 53-bit mantissa nearest to (2q+1) * 2^(50-e) / 5, which lies below the
\* halfway value when the remainder modulo 5 is 1 or 2 and above it when
\* the remainder is 3 or 4, and round() follows the double.
round_half(q) ==
    LET p == 2 * q + 1
        e == floor_log2(p, 20)
        r5 == (p * pow2((2 - e) % 4)) % 5
    IN  IF p % 5 = 0
        THEN IF q % 2 = 0 THEN q ELSE q + 1
        ELSE IF r5 \in {1, 2} THEN q ELSE q + 1

\* round(avg, 1), in tenths
round1(avg) ==
    LET q == (10 * avg.num) \div avg.den
        r == (10 * avg.num) % avg.den
    IN  IF 2 * r < avg.den THEN q
        ELSE IF 2 * r > avg.den THEN q + 1
        ELSE round_half(q)

\* variant: thresholds of 13 and 21
difficulty_shifted(avg) ==
    IF avg.num < (EasyBelow + 1) * avg.den
    THEN "Easy (good for general audiences)"
    ELSE IF avg.num < (ModerateBelow + 1) * avg.den
         THEN "Moderate"
         ELSE "Hard (consider shortening sentences)"

\* variant: <= in place of <
difficulty_inclusive(avg) ==
    IF avg.num <= EasyBelow * avg.den
    THEN "Easy (good for general audiences)"
    ELSE IF avg.num <= ModerateBelow * avg.den
         THEN "Moderate"
         ELSE "Hard (consider shortening sentences)"

\* the if / elif / else on avg_sent_len
difficulty(avg) ==
    IF avg.num < EasyBelow * avg.den
    THEN "Easy (good for general audiences)"
    ELSE IF avg.num < ModerateBelow * avg.den
         THEN "Moderate"
         ELSE "Hard (consider shortening sentences)"

\* the body of readability_checks, given the per-sentence token counts of
\* sentence_split(text) and word_count(text)
readability_record(ls, total_words) ==
    LET avg == mean_length(ls)
    IN  [total_words |-> total_words,
         sentence_count |-> Len(ls),
         average_sentence_length |-> round1(avg),
         long_sentences_count |->
             Cardinality({i \in 1..Len(ls) : ls[i] > LongSentenceWords}),
         difficulty_estimate |-> difficulty(avg)]

readability_checks(s) ==
    readability_record(sentence_lengths(sentence_split(s)), word_count(s))

(***************************************************************************)
(* Keyword table.                                                          *)
(***************************************************************************)
default_stopwords == {
    <<"t", "h", "e">>, <<"a", "n", "d">>, <<"i", "s">>, <<"i", "n">>,
    <<"t", "o">>, <<"a">>, <<"o", "f">>, <<"t", "h", "a", "t">>,
    <<"i", "t">>, <<"o", "n">>, <<"f", "o", "r">>, <<"w", "i", "t", "h">>,
    <<"a", "s">>, <<"t", "h", "i", "s">>, <<"a", "r", "e">>, <<"a", "n">>,
    <<"b", "e">>, <<"b", "y">>, <<"o", "r">>, <<"w", "e">>,
    <<"y", "o", "u", "r">>, <<"y", "o", "u">>
    }

RECURSIVE counter_add(_, _)
\* Counter: one more occurrence of w; a new word goes last
counter_add(items, w) ==
    IF items = <<>> THEN << <<w, 1>> >>
    ELSE IF Head(items)[1] = w
         THEN << <<w, Head(items)[2] + 1>> >> \o Tail(items)
         ELSE <<Head(items)>> \o counter_add(Tail(items), w)

RECURSIVE Counter(_, _)
\* Counter(words).items(): (word, count) in order of first occurrence
Counter(words, items) ==
    IF words = <<>> THEN items
    ELSE Counter(Tail(words), counter_add(items, Head(words)))

RECURSIVE insert_ties_reversed(_, _)
\* variant: among equal counts the later word goes first
insert_ties_reversed(sorted, x) ==
    IF sorted = <<>> THEN <<x>>
    ELSE IF Head(sorted)[2] > x[2]
         THEN <<Head(sorted)>> \o insert_ties_reversed(Tail(sorted), x)
         ELSE <<x>> \o sorted

RECURSIVE insert_desc(_, _)
\* x goes after every item whose count is at least its own
insert_desc(sorted, x) ==
    IF sorted = <<>> THEN <<x>>
    ELSE IF Head(sorted)[2] >= x[2]
         THEN <<Head(sorted)>> \o insert_desc(Tail(sorted), x)
         ELSE <<x>> \o sorted

RECURSIVE sorted_desc(_, _)
\* sorted(items, key=itemgetter(1), reverse=True): stable
sorted_desc(items, acc) ==
    IF items = <<>> THEN acc
    ELSE sorted_desc(Tail(items), insert_desc(acc, Head(items)))

\* Counter.most_common(n) for an integer n: heapq.nlargest(n, items, key),
\* which is sorted(items, key=key, reverse=True)[:n]
most_common(items, n) ==
    IF n <= 0 THEN <<>>
    ELSE SubSeq(sorted_desc(items, <<>>), 1, Min(n, Len(items)))

keyword_frequency(s, n) ==
    LET words == SelectSeq(get_words(s), LAMBDA w : w \notin default_stopwords)
    IN  most_common(Counter(words, <<>>), n)

(***************************************************************************)
(* Prompt builder and suggestion provider.                                 *)
(***************************************************************************)
NoneValue == "<None>"
Unbound == <<"<unbound>">>
NoAvg == [num |-> -1, den |-> 1]
NoMetrics ==
    [total_words |-> -1, sentence_count |-> -1,
     average_sentence_length |-> -1, long_sentences_count |-> -1,
     difficulty_estimate |-> "<unbound>"]
NoResponse == [kind |-> "none", content |-> <<>>]
NoPrompt ==
    [instruction |-> "<unbound>", word_count |-> -1, top_keywords |-> <<>>,
     average_sentence_length |-> -1, long_sentences |-> -1]

MOCK_TEXT == <<
    "- Use a clear H1 that includes your main keyword.",
    "- Add a short meta description (140-160 chars) containing the keyword.",
    "- Use the top 3 keywords naturally in the first 100 words.",
    "- Break long paragraphs into smaller ones (2-3 sentences each).",
    "- Add subheadings (H2/H3) to organize content and include related keywords.",
    "- Include internal links to related pages and at least one external reference." >>

FALLBACK_TEXT == <<
    "- (Fallback) Use a clear H1 with the main keyword.",
    "- (Fallback) Add a meta description (140-160 chars).",
    "- (Fallback) Use keywords in the first 100 words.",
    "- (Fallback) Shorten long sentences and add subheadings." >>

\* the summary of main and the prompt built from it: the fixed instruction
\* around the four data points
build_prompt(words, kws, metrics) ==
    [instruction |-> "You are an SEO assistant. ...",
     word_count |-> words,
     top_keywords |-> [i \in 1..Min(5, Len(kws)) |-> kws[i][1]],
     average_sentence_length |-> metrics.average_sentence_length,
     long_sentences |-> metrics.long_sentences_count]

\* str(use_mock)
str_bool(b) == IF b THEN "True" ELSE "False"

\* the truth value of os.getenv('OPENAI_API_KEY'): None and '' are false
truthy(v) == v # NoneValue /\ v # ""

\* variant: only an unset credential counts as missing
takes_mock_key_is_none(mock, lib, key) ==
    mock \/ ~lib \/ key = NoneValue

\* the condition of the first if of call_llm
takes_mock(mock, lib, key) ==
    mock \/ ~lib \/ ~truthy(key)

\* what openai.ChatCompletion.create can do: raise, or return a response
\* without choices, with a content of None, or with a content string
RemoteContents == {<<"t">>, <<" ", "t", " ">>, <<>>}
Responses ==
    {[kind |-> k, content |-> <<>>] :
        k \in {"raises", "no_choices", "content_none"}}
    \cup {[kind |-> "ok", content |-> c] : c \in RemoteContents}

\* variant: only the create call is inside the try
llm_result_uncaught_malformed(r) ==
    IF r.kind = "ok"
    THEN [exc |-> "none", text |-> strip(r.content)]
    ELSE IF r.kind = "raises"
         THEN [exc |-> "none", text |-> FALLBACK_TEXT]
         ELSE [exc |-> "IndexError", text |-> Unbound]

\* the try / except Exception of call_llm, given what the remote call did
llm_result(r) ==
    IF r.kind = "ok"
    THEN [exc |-> "none", text |-> strip(r.content)]
    ELSE [exc |-> "none", text |-> FALLBACK_TEXT]

\* variant: an unreadable file reads as empty
read_file_default_content(status, content) ==
    IF status = "ok"
    THEN [exc |-> "none", text |-> content]
    ELSE [exc |-> "none", text |-> <<>>]

\* open() and f.read(): the content, or the error of open()
read_file(status, content) ==
    IF status = "ok"
    THEN [exc |-> "none", text |-> content]
    ELSE IF status = "missing"
         THEN [exc |-> "FileNotFoundError", text |-> Unbound]
         ELSE [exc |-> "PermissionError", text |-> Unbound]

(***************************************************************************)
(* The run of main().                                                      *)
(***************************************************************************)
Inputs ==
    /\ use_mock \in BOOLEAN
    /\ openai \in BOOLEAN
    /\ OPENAI_API_KEY \in {NoneValue, "", "sk-key"}
    /\ top_n \in 1..MaxTopN

Fresh ==
    /\ read_attempts = 0
    /\ wc = -1
    /\ avg_sent_len = NoAvg
    /\ readability = NoMetrics
    /\ keywords = <<>>
    /\ notice = "<unbound>"
    /\ response = NoResponse
    /\ remote_calls = 0
    /\ suggestions = Unbound
    /\ events = <<>>
    /\ exc = "none"

Init ==
    /\ pc = "start"
    /\ file_status \in {"ok", "missing", "unreadable"}
    /\ file_content \in
          IF file_status = "ok" THEN Documents(MaxDocLen) ELSE {<<>>}
    /\ text = Unbound
    /\ lengths = <<>>
    /\ Inputs
    /\ prompt = NoPrompt
    /\ Fresh

\* print(f"Reading content from: {content_path}")
PrintPath ==
    /\ pc = "start"
    /\ events' = Append(events, "path")
    /\ pc' = "read"
    /\ UNCHANGED <<file_status, file_content, read_attempts, text, use_mock,
                   top_n, openai, OPENAI_API_KEY, wc, avg_sent_len,
                   readability, keywords, notice, response, remote_calls,
                   suggestions, exc, lengths, prompt>>

\* text = read_file(content_path)
ReadFile ==
    /\ pc = "read"
    /\ read_attempts' = read_attempts + 1
    /\ LET r == read_file(file_status, file_content)
       IN  IF r.exc = "none"
           THEN /\ text' = r.text
                /\ pc' = "metrics"
                /\ exc' = exc
           ELSE /\ text' = text
                /\ pc' = "terminated"
                /\ exc' = r.exc
    /\ UNCHANGED <<file_status, file_content, use_mock, top_n, openai,
                   OPENAI_API_KEY, wc, avg_sent_len, readability, keywords,
                   notice, response, remote_calls, suggestions, events,
                   lengths, prompt>>

\* wc, sentences, readability, keywords
ComputeMetrics ==
    /\ pc = "metrics"
    /\ wc' = word_count(text)
    /\ avg_sent_len' = avg_sentence_length(sentence_split(text))
    /\ readability' = readability_checks(text)
    /\ keywords' = keyword_frequency(text, top_n)
    /\ pc' = "print_metrics"
    /\ UNCHANGED <<file_status, file_content, read_attempts, text, use_mock,
                   top_n, openai, OPENAI_API_KEY, notice, response,
                   remote_calls, suggestions, events, exc, lengths, prompt>>

\* the "--- Basic SEO Metrics ---" section
PrintMetrics ==
    /\ pc = "print_metrics"
    /\ events' = Append(events, "metrics")
    /\ pc' = "print_keywords"
    /\ UNCHANGED <<file_status, file_content, read_attempts, text, use_mock,
                   top_n, openai, OPENAI_API_KEY, wc, avg_sent_len,
                   readability, keywords, notice, response, remote_calls,
                   suggestions, exc, lengths, prompt>>

\* the "Top keywords:" list
PrintKeywords ==
    /\ pc = "print_keywords"
    /\ events' = Append(events, "keywords")
    /\ pc' = "notice"
    /\ UNCHANGED <<file_status, file_content, read_attempts, text, use_mock,
                   top_n, openai, OPENAI_API_KEY, wc, avg_sent_len,
                   readability, keywords, notice, response, remote_calls,
                   suggestions, exc, lengths, prompt>>

\* summary, prompt and the "Sending summary to LLM (mock mode = ...)" line
PrintNotice ==
    /\ pc = "notice"
    /\ prompt' = build_prompt(wc, keywords, readability)
    /\ notice' = str_bool(use_mock)
    /\ events' = Append(events, "notice")
    /\ pc' = "call_llm"
    /\ UNCHANGED <<file_status, file_content, read_attempts, text, use_mock,
                   top_n, openai, OPENAI_API_KEY, wc, avg_sent_len,
                   readability, keywords, response, remote_calls,
                   suggestions, exc, lengths>>

\* call_llm, first branch: the mock text, whatever the prompt
CallLlmMock ==
    /\ pc = "call_llm"
    /\ takes_mock(use_mock, openai, OPENAI_API_KEY)
    /\ suggestions' = MOCK_TEXT
    /\ pc' = "print_suggestions"
    /\ UNCHANGED <<file_status, file_content, read_attempts, text, use_mock,
                   top_n, openai, OPENAI_API_KEY, wc, avg_sent_len,
                   readability, keywords, notice, response, remote_calls,
                   events, exc, lengths, prompt>>

\* call_llm, second branch: openai.ChatCompletion.create is called
CallLlmCreate ==
    /\ pc = "call_llm"
    /\ ~takes_mock(use_mock, openai, OPENAI_API_KEY)
    /\ remote_calls' = remote_calls + 1
    /\ events' = Append(events, "remote_call")
    /\ pc' = "remote"
    /\ UNCHANGED <<file_status, file_content, read_attempts, text, use_mock,
                   top_n, openai, OPENAI_API_KEY, wc, avg_sent_len,
                   readability, keywords, notice, response, suggestions,
                   exc, lengths, prompt>>

\* variant: a failed remote call is made once more
RemoteReturnsRetry ==
    /\ pc = "remote"
    /\ \E r \in Responses :
          /\ response' = r
          /\ IF r.kind # "ok" /\ remote_calls < 2
             THEN /\ pc' = "call_llm"
                  /\ suggestions' = suggestions
             ELSE /\ pc' = "print_suggestions"
                  /\ suggestions' = llm_result(r).text
    /\ UNCHANGED <<file_status, file_content, read_attempts, text, use_mock,
                   top_n, openai, OPENAI_API_KEY, wc, avg_sent_len,
                   readability, keywords, notice, remote_calls, events, exc,
                   lengths, prompt>>

\* the remote call ends; call_llm returns its text, or the error leaves main
RemoteReturns ==
    /\ pc = "remote"
    /\ \E r \in Responses :
          /\ response' = r
          /\ LET res == llm_result(r)
             IN  IF res.exc = "none"
                 THEN /\ suggestions' = res.text
                      /\ pc' = "print_suggestions"
                      /\ exc' = exc
                 ELSE /\ suggestions' = suggestions
                      /\ pc' = "terminated"
                      /\ exc' = res.exc
    /\ UNCHANGED <<file_status, file_content, read_attempts, text, use_mock,
                   top_n, openai, OPENAI_API_KEY, wc, avg_sent_len,
                   readability, keywords, notice, remote_calls, events,
                   lengths, prompt>>

\* the "--- SEO Improvement Suggestions ---" block
PrintSuggestions ==
    /\ pc = "print_suggestions"
    /\ events' = Append(events, "suggestions")
    /\ pc' = "done"
    /\ UNCHANGED <<file_status, file_content, read_attempts, text, use_mock,
                   top_n, openai, OPENAI_API_KEY, wc, avg_sent_len,
                   readability, keywords, notice, response, remote_calls,
                   suggestions, exc, lengths, prompt>>

Next ==
    \/ PrintPath
    \/ ReadFile
    \/ ComputeMetrics
    \/ PrintMetrics
    \/ PrintKeywords
    \/ PrintNotice
    \/ CallLlmMock
    \/ CallLlmCreate
    \/ RemoteReturns
    \/ PrintSuggestions

Spec == Init /\ [][Next]_vars

\* main is one sequential thread: a step that can be taken is taken
FairSpec == Spec /\ WF_vars(Next)

(***************************************************************************)
(* The metrics of every short text: main from "wc = word_count(text)" on,  *)
(* for any text.                                                           *)
(***************************************************************************)
TextInit ==
    /\ pc = "metrics"
    /\ file_status = "ok"
    /\ text \in Strings(MaxLen)
    /\ file_content = text
    /\ lengths = <<>>
    /\ use_mock = TRUE
    /\ openai = FALSE
    /\ OPENAI_API_KEY = NoneValue
    /\ top_n \in 1..MaxTopN
    /\ prompt = NoPrompt
    /\ Fresh

TextSpec == TextInit /\ [][ComputeMetrics]_vars

(***************************************************************************)
(* readability_checks on texts of many long sentences, given by their      *)
(* per-sentence token counts: k sentences of a tokens, then n - k of b.    *)
(***************************************************************************)
Repeat(a, k, b, n) == [i \in 1..n |-> IF i <= k THEN a ELSE b]

ReadabilityInit ==
    /\ pc = "readability"
    /\ \E n \in 0..MaxSentences, a \in 0..MaxSentLen, b \in 0..MaxSentLen :
          \E k \in 0..n : lengths = Repeat(a, k, b, n)
    /\ file_status = "ok"
    /\ file_content = <<>>
    /\ text = Unbound
    /\ use_mock = TRUE
    /\ openai = FALSE
    /\ OPENAI_API_KEY = NoneValue
    /\ top_n = 1
    /\ prompt = NoPrompt
    /\ Fresh

\* readability_checks: the token counts of a text add up to its word count
RunReadability ==
    /\ pc = "readability"
    /\ avg_sent_len' = mean_length(lengths)
    /\ readability' = readability_record(lengths, Sum(lengths))
    /\ pc' = "readability_done"
    /\ UNCHANGED <<file_status, file_content, read_attempts, text, use_mock,
                   top_n, openai, OPENAI_API_KEY, wc, keywords, notice,
                   response, remote_calls, suggestions, events, exc, lengths,
                   prompt>>

ReadabilitySpec == ReadabilityInit /\ [][RunReadability]_vars

(***************************************************************************)
(* Properties.                                                             *)
(***************************************************************************)
AfterCall == {"print_suggestions", "done"}
AfterMetrics ==
    {"print_metrics", "print_keywords", "notice", "call_llm", "remote",
     "print_suggestions", "done"}

MockRequested ==
    use_mock \/ ~openai \/ OPENAI_API_KEY = NoneValue \/ OPENAI_API_KEY = ""

RemoteFailed == response.kind \in {"raises", "no_choices", "content_none"}

Printed(e) == \E i \in 1..Len(events) : events[i] = e

LastEvent == IF events = <<>> THEN "<none>" ELSE events[Len(events)]

IsPrefix(s, t) == Len(s) <= Len(t) /\ s = SubSeq(t, 1, Len(s))

\* C1: whenever the mock flag is set, or the credential is unset or empty,
\* or the openai library is missing, openai.ChatCompletion.create is never
\* called and call_llm returns exactly the six-line mock text.
C1_MockWithoutRemoteCall ==
    MockRequested =>
        /\ remote_calls = 0
        /\ response = NoResponse
        /\ ~Printed("remote_call")
        /\ pc # "remote"
        /\ pc \in AfterCall => suggestions = MOCK_TEXT /\ Len(suggestions) = 6

C1_Witness ==
    /\ pc = "done"
    /\ use_mock /\ openai /\ OPENAI_API_KEY = "sk-key"
    /\ suggestions = MOCK_TEXT
    /\ remote_calls = 0

\* C2: when the remote call was made and it raised or returned a malformed
\* response, call_llm returns exactly the four-line fallback text, no error
\* leaves main, and the run goes on to print the suggestion block.
C2_FallbackOnRemoteFailure ==
    /\ [](RemoteFailed =>
            /\ suggestions = FALLBACK_TEXT
            /\ Len(suggestions) = 4
            /\ exc = "none"
            /\ pc \in AfterCall)
    /\ (RemoteFailed ~>
            (pc = "done" /\ LastEvent = "suggestions"
                /\ suggestions = FALLBACK_TEXT))

C2_Witness ==
    /\ pc = "done"
    /\ ~use_mock /\ openai /\ OPENAI_API_KEY = "sk-key"
    /\ response.kind = "no_choices"
    /\ suggestions = FALLBACK_TEXT
    /\ LastEvent = "suggestions"

\* C3: when the input file is missing or unreadable the error of the read
\* leaves main: nothing but the source path is printed, no content is
\* substituted for the file's, the read is made once, and no remote call
\* is made.
C3_UnreadableFileIsFatal ==
    file_status # "ok" =>
        /\ pc \in {"start", "read", "terminated"}
        /\ events \in {<<>>, <<"path">>}
        /\ text = Unbound
        /\ suggestions = Unbound
        /\ readability = NoMetrics
        /\ read_attempts <= 1
        /\ remote_calls = 0
        /\ read_attempts = 1 => pc = "terminated" /\ exc # "none"

C3_Witness ==
    /\ pc = "terminated"
    /\ file_status = "missing"
    /\ exc = "FileNotFoundError"
    /\ events = <<"path">>

\* C4 as stated: the label is "Easy" for an average below 12, "Moderate"
\* from 12 to below 20, "Hard" from 20.
C4_ShortLabels ==
    pc = "readability_done" =>
        LET s == Sum(lengths)
            n == Len(lengths)
        IN  readability.difficulty_estimate =
               IF n = 0 \/ s < 12 * n THEN "Easy"
               ELSE IF s < 20 * n THEN "Moderate"
               ELSE "Hard"

\* C4, amended: the label is "Easy (good for general audiences)" for an
\* average sentence length below 12, "Moderate" from 12 to below 20, and
\* "Hard (consider shortening sentences)" from 20.
C4_DifficultyBands ==
    pc = "readability_done" =>
        LET s == Sum(lengths)
            n == Len(lengths)
        IN  readability.difficulty_estimate =
               IF n = 0 \/ s < 12 * n
               THEN "Easy (good for general audiences)"
               ELSE IF s < 20 * n THEN "Moderate"
               ELSE "Hard (consider shortening sentences)"

\* an average of exactly 19.9 is labelled "Moderate"
C4_Witness ==
    /\ pc = "readability_done"
    /\ Len(lengths) > 0
    /\ 10 * Sum(lengths) = 199 * Len(lengths)
    /\ readability.difficulty_estimate = "Moderate"

\* the band a label names
LabelBand(l) ==
    IF l = "Easy (good for general audiences)" THEN "Easy"
    ELSE IF l = "Hard (consider shortening sentences)" THEN "Hard"
    ELSE l

\* the band of a value given in tenths
BandOfTenths(r) ==
    IF r < 120 THEN "Easy" ELSE IF r < 200 THEN "Moderate" ELSE "Hard"

\* C9 as stated: the label of a metrics record is the band of the record's
\* own average_sentence_length, the value rounded to one decimal.
C9_LabelIsBandOfReported ==
    pc = "readability_done" =>
        LabelBand(readability.difficulty_estimate) =
            BandOfTenths(readability.average_sentence_length)

\* C9, amended: the label is the band of the reported average, except that
\* a record reporting 12.0 for an unrounded average below 12 is labelled
\* Easy, and a record reporting 20.0 for an unrounded average below 20 is
\* labelled Moderate.
C9_LabelIsBandOfUnrounded ==
    pc = "readability_done" =>
        LET s == Sum(lengths)
            n == Len(lengths)
            r == readability.average_sentence_length
        IN  LabelBand(readability.difficulty_estimate) =
               IF r = 120 /\ s < 12 * n THEN "Easy"
               ELSE IF r = 200 /\ s < 20 * n THEN "Moderate"
               ELSE BandOfTenths(r)

\* a record that reports 12.0 and is labelled Easy
C9_Witness ==
    /\ pc = "readability_done"
    /\ readability.average_sentence_length = 120
    /\ Sum(lengths) < 12 * Len(lengths)
    /\ LabelBand(readability.difficulty_estimate) = "Easy"

\* the tokens of the text, counted apart from the keyword table
Occurrences(w) ==
    LET words == get_words(text)
    IN  Cardinality({i \in 1..Len(words) : words[i] = w})

FirstOccurrence(w) ==
    LET words == get_words(text)
    IN  CHOOSE i \in 1..Len(words) :
           /\ words[i] = w
           /\ \A j \in 1..(i - 1) : words[j] # w

NonStopwords ==
    LET words == get_words(text)
    IN  {words[i] : i \in 1..Len(words)} \ default_stopwords

\* C5: the keyword table holds no default stopword, has
\* min(top_n, number of distinct non-stopword tokens) entries, gives each
\* word its number of occurrences in the text, is sorted by non-increasing
\* frequency, and orders words of equal frequency by first occurrence.
C5_KeywordTable ==
    pc = "print_metrics" =>
        /\ Len(keywords) = Min(top_n, Cardinality(NonStopwords))
        /\ Len(keywords) <= top_n
        /\ \A i \in 1..Len(keywords) :
              /\ keywords[i][1] \notin default_stopwords
              /\ keywords[i][2] = Occurrences(keywords[i][1])
              /\ keywords[i][2] > 0
        /\ \A i, j \in 1..Len(keywords) :
              i < j =>
                 /\ keywords[i][2] >= keywords[j][2]
                 /\ keywords[i][2] = keywords[j][2] =>
                       FirstOccurrence(keywords[i][1])
                          < FirstOccurrence(keywords[j][1])

\* a table cut to top_n whose most frequent word is not the first word of
\* the text
C5_Witness ==
    /\ pc = "print_metrics"
    /\ top_n = 1
    /\ Cardinality(NonStopwords) = 2
    /\ Len(keywords) = 1
    /\ keywords[1][2] = 2
    /\ FirstOccurrence(keywords[1][1]) > 1

\* C10: the word count of the text is the sum of the token counts of its
\* sentences; with at least one sentence the unrounded average is
\* total_words / sentence_count; a text with a word has a sentence.
C10_TokensConserved ==
    pc = "print_metrics" =>
        /\ readability.total_words = wc
        /\ readability.sentence_count > 0 =>
              /\ avg_sent_len.num = readability.total_words
              /\ avg_sent_len.den = readability.sentence_count
        /\ readability.sentence_count = 0 =>
              /\ readability.total_words = 0
              /\ avg_sent_len.num = 0
        /\ readability.total_words > 0 => readability.sentence_count > 0

\* three sentences, one of them without a word
C10_Witness ==
    /\ pc = "print_metrics"
    /\ readability.sentence_count = 3
    /\ readability.total_words = 2

EmptyFile == file_status = "ok" /\ file_content = <<>>

\* C6 as stated: for an empty file the metrics are all 0, the label is
\* "Easy", the keyword table is empty and the suggestion printed is the mock
\* or the fallback text.
C6_EmptyFileAsStated ==
    EmptyFile /\ pc = "done" =>
        /\ exc = "none"
        /\ wc = 0
        /\ readability.sentence_count = 0
        /\ readability.average_sentence_length = 0
        /\ readability.long_sentences_count = 0
        /\ readability.difficulty_estimate = "Easy"
        /\ keywords = <<>>
        /\ suggestions \in {MOCK_TEXT, FALLBACK_TEXT}

\* C6, amended: for an empty file no error leaves main, the metrics are all
\* 0, the label is "Easy (good for general audiences)", the keyword table is
\* empty, and the suggestion printed is the mock text, the fallback text
\* after a failed remote call, or the stripped text of a remote call that
\* succeeded.
C6_EmptyFile ==
    EmptyFile =>
        /\ exc = "none"
        /\ pc # "terminated"
        /\ pc \in AfterMetrics =>
              /\ wc = 0
              /\ readability.total_words = 0
              /\ readability.sentence_count = 0
              /\ readability.average_sentence_length = 0
              /\ readability.long_sentences_count = 0
              /\ readability.difficulty_estimate
                    = "Easy (good for general audiences)"
              /\ keywords = <<>>
        /\ pc = "done" =>
              /\ LastEvent = "suggestions"
              /\ suggestions =
                    IF MockRequested THEN MOCK_TEXT
                    ELSE IF RemoteFailed THEN FALLBACK_TEXT
                    ELSE strip(response.content)

\* an empty file whose suggestion is the remote text
C6_Witness ==
    /\ EmptyFile
    /\ pc = "done"
    /\ response.kind = "ok"
    /\ suggestions = <<"t">>
    /\ readability.sentence_count = 0

\* C7: the notice says that mock mode is active exactly when call_llm
\* returns the mock text without a remote call.
C7_NoticeTellsMockOutcome ==
    pc \in AfterCall =>
        (notice = "True" <=> (suggestions = MOCK_TEXT /\ remote_calls = 0))

EventOrder ==
    <<"path", "metrics", "keywords", "notice", "remote_call", "suggestions">>
EventOrderMock ==
    <<"path", "metrics", "keywords", "notice", "suggestions">>

RECURSIVE CountOf(_, _)
CountOf(e, s) ==
    IF s = <<>> THEN 0
    ELSE (IF Head(s) = e THEN 1 ELSE 0) + CountOf(e, Tail(s))

\* C8: with a readable file the events come in the order path, metrics,
\* keywords, notice, at most one remote call, suggestions, and the run
\* always reaches the suggestions.
C8_FixedOrder ==
    /\ [](file_status = "ok" =>
            /\ IsPrefix(events, EventOrder) \/ IsPrefix(events, EventOrderMock)
            /\ remote_calls <= 1
            /\ remote_calls = CountOf("remote_call", events)
            /\ pc = "remote" => Printed("metrics") /\ Printed("keywords"))
    /\ (file_status = "ok" ~>
            (pc = "done" /\ LastEvent = "suggestions" /\ exc = "none"))

\* a run whose one remote call failed and that printed everything
C8_Witness ==
    /\ pc = "done"
    /\ events = EventOrder
    /\ response.kind = "raises"
    /\ remote_calls = 1

=============================================================================
